---- MODULE Spec2Model ----
\* GitHub automation data models (apps/backend/runners/github/models.py):
\* record (de)serialization, file persistence, index upsert, auto-fix status
\* updates and the runner configuration's settings split.
\*
\* Modelling conventions
\*   - A Python object is a record tagged with its class in the field `kind`.
\*   - Optional[T] is a sequence: None is <<>> and a value v is <<v>>.
\*   - A dict / JSON object is a function from key strings to values; a key the
\*     dict does not hold is not in its DOMAIN.
\*   - A timestamp is the clock reading it was formatted from (a natural number):
\*     datetime.isoformat() is fixed-width and order preserving, and the code
\*     only ever copies and compares these strings.
\*   - A float (confidence, thresholds) is its value in hundredths.
EXTENDS Integers, Sequences, FiniteSets, TLC

VARIABLES
    now,        \* the wall clock that datetime.now() reads
    dirs,       \* the directories that exist under github_dir
    files,      \* path -> content of every file under github_dir
    obj,        \* the object the caller holds: the last one constructed, decoded or loaded
    ret,        \* the mapping GitHubRunnerConfig.to_dict() last returned
    saved,      \* history: class and identifier -> the object save() last wrote
    order,      \* history: index path -> identifiers in the order of their first save
    nsaves,     \* history: number of save calls so far
    lastw,      \* history: index path -> identifier of the save that last wrote it
    pc,         \* concurrent saves: each process's position inside save()
    loc         \* concurrent saves: each process's local variables

vars == <<now, dirs, files, obj, ret, saved, order, nsaves, lastw, pc, loc>>

\* ---------------------------------------------------------------- bounds

MaxId == 2
MaxTime == 1
MaxSaves == 3

Ids == 1..MaxId
Times == 0..MaxTime

\* ---------------------------------------------------------------- values

None == <<>>
Some(v) == <<v>>

Get(d, k, default) == IF k \in DOMAIN d THEN d[k] ELSE default

Range(f) == {f[x] : x \in DOMAIN f}

\* Enum classes: member name -> value.
ReviewSeverity ==
    [CRITICAL |-> "critical", HIGH |-> "high", MEDIUM |-> "medium", LOW |-> "low"]

ReviewCategory ==
    [SECURITY |-> "security", QUALITY |-> "quality", STYLE |-> "style",
     TEST |-> "test", DOCS |-> "docs", PATTERN |-> "pattern",
     PERFORMANCE |-> "performance"]

TriageCategory ==
    [BUG |-> "bug", FEATURE |-> "feature", DOCUMENTATION |-> "documentation",
     QUESTION |-> "question", DUPLICATE |-> "duplicate", SPAM |-> "spam",
     FEATURE_CREEP |-> "feature_creep"]

AutoFixStatus ==
    [PENDING |-> "pending", ANALYZING |-> "analyzing",
     CREATING_SPEC |-> "creating_spec", BUILDING |-> "building",
     QA_REVIEW |-> "qa_review", PR_CREATED |-> "pr_created",
     COMPLETED |-> "completed", FAILED |-> "failed"]

\* Enum(value): the member whose value it is; ValueError when there is none.
IsEnumValue(enum, v) == v \in Range(enum)
EnumMember(enum, v) == CHOOSE m \in DOMAIN enum : enum[m] = v

\* What a call leaves the caller with when it raises or returns None.
NoObject == [kind |-> "none"]
Raised(exc) == [kind |-> "raised", exc |-> exc]

HasKeys(d, ks) == ks \subseteq DOMAIN d

\* ---------------------------------------------------------------- clock

\* datetime.now().isoformat(): the reading of the clock.
Now(t) == t

\* ---------------------------------------------------------------- PRReviewFinding

PRReviewFinding(id, severity, category, title, description, file, line) ==
    [kind |-> "finding", id |-> id, severity |-> severity, category |-> category,
     title |-> title, description |-> description, file |-> file, line |-> line,
     end_line |-> None, suggested_fix |-> None, fixable |-> FALSE]

PRReviewFindingToDict(self) ==
    [id |-> self.id,
     severity |-> ReviewSeverity[self.severity],
     category |-> ReviewCategory[self.category],
     title |-> self.title,
     description |-> self.description,
     file |-> self.file,
     line |-> self.line,
     end_line |-> self.end_line,
     suggested_fix |-> self.suggested_fix,
     fixable |-> self.fixable]

PRReviewFindingFromDict(data) ==
    IF ~HasKeys(data, {"id", "severity"}) THEN Raised("KeyError")
    ELSE IF ~IsEnumValue(ReviewSeverity, data["severity"]) THEN Raised("ValueError")
    ELSE IF ~HasKeys(data, {"category"}) THEN Raised("KeyError")
    ELSE IF ~IsEnumValue(ReviewCategory, data["category"]) THEN Raised("ValueError")
    ELSE IF ~HasKeys(data, {"title", "description", "file", "line"})
         THEN Raised("KeyError")
    ELSE [kind |-> "finding",
          id |-> data["id"],
          severity |-> EnumMember(ReviewSeverity, data["severity"]),
          category |-> EnumMember(ReviewCategory, data["category"]),
          title |-> data["title"],
          description |-> data["description"],
          file |-> data["file"],
          line |-> data["line"],
          end_line |-> Get(data, "end_line", None),
          suggested_fix |-> Get(data, "suggested_fix", None),
          fixable |-> Get(data, "fixable", FALSE)]

\* ---------------------------------------------------------------- PRReviewResult

\* PRReviewResult(pr_number, repo, success, findings=..., summary=...,
\* overall_status=..., review_id=..., error=...), the keyword arguments in kw:
\* reviewed_at takes its default, the clock's reading.
PRReviewResult(pr_number, repo, kw, t) ==
    [kind |-> "review", pr_number |-> pr_number, repo |-> repo,
     success |-> kw.success, findings |-> kw.findings, summary |-> kw.summary,
     overall_status |-> kw.overall_status, review_id |-> kw.review_id,
     reviewed_at |-> Now(t), error |-> kw.error]

PRReviewResultToDict(self) ==
    [pr_number |-> self.pr_number,
     repo |-> self.repo,
     success |-> self.success,
     findings |-> [i \in DOMAIN self.findings |->
                      PRReviewFindingToDict(self.findings[i])],
     summary |-> self.summary,
     overall_status |-> self.overall_status,
     review_id |-> self.review_id,
     reviewed_at |-> self.reviewed_at,
     error |-> self.error]

PRReviewResultFromDict(data, t) ==
    IF ~HasKeys(data, {"pr_number", "repo", "success"}) THEN Raised("KeyError")
    ELSE LET fs == Get(data, "findings", <<>>)
             decoded == [i \in DOMAIN fs |-> PRReviewFindingFromDict(fs[i])]
         IN IF \E i \in DOMAIN decoded : decoded[i].kind = "raised"
            THEN decoded[CHOOSE i \in DOMAIN decoded :
                            /\ decoded[i].kind = "raised"
                            /\ \A j \in DOMAIN decoded :
                                  decoded[j].kind = "raised" => i <= j]
            ELSE [kind |-> "review",
                  pr_number |-> data["pr_number"],
                  repo |-> data["repo"],
                  success |-> data["success"],
                  findings |-> decoded,
                  summary |-> Get(data, "summary", ""),
                  overall_status |-> Get(data, "overall_status", "comment"),
                  review_id |-> Get(data, "review_id", None),
                  reviewed_at |-> Get(data, "reviewed_at", Now(t)),
                  error |-> Get(data, "error", None)]

\* ---------------------------------------------------------------- TriageResult

\* TriageResult(issue_number, repo, category, confidence, ...), the keyword
\* arguments in kw: triaged_at takes its default, the clock's reading.
TriageResult(issue_number, repo, kw, t) ==
    [kind |-> "triage", issue_number |-> issue_number, repo |-> repo,
     category |-> kw.category, confidence |-> kw.confidence,
     labels_to_add |-> kw.labels_to_add,
     labels_to_remove |-> kw.labels_to_remove,
     is_duplicate |-> kw.is_duplicate, duplicate_of |-> kw.duplicate_of,
     is_spam |-> kw.is_spam, is_feature_creep |-> kw.is_feature_creep,
     suggested_breakdown |-> kw.suggested_breakdown,
     priority |-> kw.priority, comment |-> kw.comment, triaged_at |-> Now(t)]

TriageResultToDict(self) ==
    [issue_number |-> self.issue_number,
     repo |-> self.repo,
     category |-> TriageCategory[self.category],
     confidence |-> self.confidence,
     labels_to_add |-> self.labels_to_add,
     labels_to_remove |-> self.labels_to_remove,
     is_duplicate |-> self.is_duplicate,
     duplicate_of |-> self.duplicate_of,
     is_spam |-> self.is_spam,
     is_feature_creep |-> self.is_feature_creep,
     suggested_breakdown |-> self.suggested_breakdown,
     priority |-> self.priority,
     comment |-> self.comment,
     triaged_at |-> self.triaged_at]

TriageResultFromDict(data, t) ==
    IF ~HasKeys(data, {"issue_number", "repo", "category"}) THEN Raised("KeyError")
    ELSE IF ~IsEnumValue(TriageCategory, data["category"]) THEN Raised("ValueError")
    ELSE IF ~HasKeys(data, {"confidence"}) THEN Raised("KeyError")
    ELSE [kind |-> "triage",
          issue_number |-> data["issue_number"],
          repo |-> data["repo"],
          category |-> EnumMember(TriageCategory, data["category"]),
          confidence |-> data["confidence"],
          labels_to_add |-> Get(data, "labels_to_add", <<>>),
          labels_to_remove |-> Get(data, "labels_to_remove", <<>>),
          is_duplicate |-> Get(data, "is_duplicate", FALSE),
          duplicate_of |-> Get(data, "duplicate_of", None),
          is_spam |-> Get(data, "is_spam", FALSE),
          is_feature_creep |-> Get(data, "is_feature_creep", FALSE),
          suggested_breakdown |-> Get(data, "suggested_breakdown", <<>>),
          priority |-> Get(data, "priority", "medium"),
          comment |-> Get(data, "comment", None),
          triaged_at |-> Get(data, "triaged_at", Now(t))]

\* ---------------------------------------------------------------- AutoFixState

\* AutoFixState(issue_number, issue_url, repo, ...), the keyword arguments in
\* kw: created_at and updated_at take their defaults, the clock read at tc for
\* the first and then at tu for the second.
AutoFixState(issue_number, issue_url, repo, kw, tc, tu) ==
    [kind |-> "autofix", issue_number |-> issue_number, issue_url |-> issue_url,
     repo |-> repo, status |-> kw.status, spec_id |-> kw.spec_id,
     spec_dir |-> kw.spec_dir, pr_number |-> kw.pr_number,
     pr_url |-> kw.pr_url, bot_comments |-> kw.bot_comments,
     error |-> kw.error, created_at |-> Now(tc), updated_at |-> Now(tu)]

AutoFixStateToDict(self) ==
    [issue_number |-> self.issue_number,
     issue_url |-> self.issue_url,
     repo |-> self.repo,
     status |-> AutoFixStatus[self.status],
     spec_id |-> self.spec_id,
     spec_dir |-> self.spec_dir,
     pr_number |-> self.pr_number,
     pr_url |-> self.pr_url,
     bot_comments |-> self.bot_comments,
     error |-> self.error,
     created_at |-> self.created_at,
     updated_at |-> self.updated_at]

\* from_dict stamping updated_at anew instead of taking the mapping's.
AutoFixStateFromDictRestamp(data, t) ==
    IF ~HasKeys(data, {"issue_number", "issue_url", "repo"}) THEN Raised("KeyError")
    ELSE IF ~IsEnumValue(AutoFixStatus, Get(data, "status", "pending"))
         THEN Raised("ValueError")
    ELSE [kind |-> "autofix",
          issue_number |-> data["issue_number"],
          issue_url |-> data["issue_url"],
          repo |-> data["repo"],
          status |-> EnumMember(AutoFixStatus, Get(data, "status", "pending")),
          spec_id |-> Get(data, "spec_id", None),
          spec_dir |-> Get(data, "spec_dir", None),
          pr_number |-> Get(data, "pr_number", None),
          pr_url |-> Get(data, "pr_url", None),
          bot_comments |-> Get(data, "bot_comments", <<>>),
          error |-> Get(data, "error", None),
          created_at |-> Get(data, "created_at", Now(t)),
          updated_at |-> Now(t)]

AutoFixStateFromDict(data, t) ==
    IF ~HasKeys(data, {"issue_number", "issue_url", "repo"}) THEN Raised("KeyError")
    ELSE IF ~IsEnumValue(AutoFixStatus, Get(data, "status", "pending"))
         THEN Raised("ValueError")
    ELSE [kind |-> "autofix",
          issue_number |-> data["issue_number"],
          issue_url |-> data["issue_url"],
          repo |-> data["repo"],
          status |-> EnumMember(AutoFixStatus, Get(data, "status", "pending")),
          spec_id |-> Get(data, "spec_id", None),
          spec_dir |-> Get(data, "spec_dir", None),
          pr_number |-> Get(data, "pr_number", None),
          pr_url |-> Get(data, "pr_url", None),
          bot_comments |-> Get(data, "bot_comments", <<>>),
          error |-> Get(data, "error", None),
          created_at |-> Get(data, "created_at", Now(t)),
          updated_at |-> Get(data, "updated_at", Now(t))]

\* update_status(status): the object after the call.
AutoFixStateUpdateStatus(self, status, t) ==
    [self EXCEPT !.status = status, !.updated_at = Now(t)]

\* ---------------------------------------------------------------- filesystem

\* review_<n>.json, triage_<n>.json, autofix_<n>.json, index.json, config.json:
\* a path is its directory, the fixed part of its name and the number in it
\* (0 when the name holds none).
Path(dir, name, n) == [dir |-> dir, name |-> name, n |-> n]

ReviewFile(pr_number) == Path("pr", "review", pr_number)
TriageFile(issue_number) == Path("issues", "triage", issue_number)
\* The auto-fix file under the name of the triage file beside it.
AutoFixFileAsTriage(issue_number) == Path("issues", "triage", issue_number)

AutoFixFile(issue_number) == Path("issues", "autofix", issue_number)
PrIndexFile == Path("pr", "index", 0)
IssuesIndexFile == Path("issues", "index", 0)
ConfigFile == Path(".", "config", 0)

RecordFiles ==
    {ReviewFile(n) : n \in Ids} \cup {TriageFile(n) : n \in Ids}
        \cup {AutoFixFile(n) : n \in Ids}
IndexFiles == {PrIndexFile, IssuesIndexFile}
Paths == RecordFiles \cup IndexFiles \cup {ConfigFile}

\* What a path holds: nothing, a complete JSON document, or what open(path, "w")
\* and an unfinished json.dump leave behind.
Absent == [kind |-> "absent", doc |-> [absent |-> TRUE]]
Json(d) == [kind |-> "json", doc |-> d]
Truncated == [kind |-> "truncated", doc |-> [absent |-> TRUE]]
Partial(d) == [kind |-> "partial", doc |-> d]

Exists(fs, path) == fs[path].kind # "absent"

\* dir.mkdir(parents=True, exist_ok=True)
Mkdir(ds, dir) == ds \cup {".", dir}

\* open(path, "w")
OpenW(fs, path) == [fs EXCEPT ![path] = Truncated]

\* json.dump(d, f, indent=2) and the close that ends the with block
Dump(fs, path, d) == [fs EXCEPT ![path] = Json(d)]

\* with open(path, "w") as f: json.dump(d, f, indent=2)
WriteJson(fs, path, d) == Dump(OpenW(fs, path), path, d)

\* json.load(f) of an existing file: the document, or JSONDecodeError
CanLoad(fs, path) == fs[path].kind = "json"
JsonLoad(fs, path) == fs[path].doc

\* ---------------------------------------------------------------- index upsert

PrIndexSkeleton == [reviews |-> <<>>, last_updated |-> None]
IssuesIndexSkeleton ==
    [triaged |-> <<>>, auto_fix_queue |-> <<>>, last_updated |-> None]

\* if index_file.exists(): json.load(f) else: the skeleton
ReadIndex(fs, path, skeleton) ==
    IF Exists(fs, path) THEN JsonLoad(fs, path) ELSE skeleton

\* The index rebuilt from the two keys the save sets, the others dropped.
SetIndexFresh(index, key, list, t) ==
    [k \in {key, "last_updated"} |->
        IF k = key THEN list ELSE Some(Now(t))]

\* The index written back without the assignment of the new list.
SetIndexStale(index, key, list, t) ==
    [k \in DOMAIN index \cup {"last_updated"} |->
        IF k = "last_updated" THEN Some(Now(t)) ELSE index[k]]

\* index[key] = list; index["last_updated"] = now
SetIndex(index, key, list, t) ==
    [k \in DOMAIN index \cup {key, "last_updated"} |->
        IF k = key THEN list
        ELSE IF k = "last_updated" THEN Some(Now(t))
        ELSE index[k]]

\* Upsert with the search for an existing entry left out: always append.
UpsertAlwaysAppend(list, idkey, entry) == Append(list, entry)

\* existing ... if existing: replace in place, else: append
Upsert(list, idkey, entry) ==
    IF \E i \in DOMAIN list : list[i][idkey] = entry[idkey]
    THEN [i \in DOMAIN list |->
             IF list[i][idkey] = entry[idkey] THEN entry ELSE list[i]]
    ELSE Append(list, entry)

PRReviewResultEntry(self) ==
    [pr_number |-> self.pr_number,
     repo |-> self.repo,
     overall_status |-> self.overall_status,
     findings_count |-> Len(self.findings),
     reviewed_at |-> self.reviewed_at]

\* The entry with the wrong timestamp of the two.
AutoFixStateEntryCreatedAt(self) ==
    [issue_number |-> self.issue_number,
     repo |-> self.repo,
     status |-> AutoFixStatus[self.status],
     spec_id |-> self.spec_id,
     pr_number |-> self.pr_number,
     updated_at |-> self.created_at]

AutoFixStateEntry(self) ==
    [issue_number |-> self.issue_number,
     repo |-> self.repo,
     status |-> AutoFixStatus[self.status],
     spec_id |-> self.spec_id,
     pr_number |-> self.pr_number,
     updated_at |-> self.updated_at]

\* PRReviewResult._update_index past the read: the index it writes back
PRReviewResultNewIndex(index, self, t) ==
    SetIndex(index, "reviews",
             Upsert(Get(index, "reviews", <<>>), "pr_number",
                    PRReviewResultEntry(self)), t)

\* AutoFixState._update_index past the read: the index it writes back
AutoFixStateNewIndex(index, self, t) ==
    SetIndex(index, "auto_fix_queue",
             Upsert(Get(index, "auto_fix_queue", <<>>), "issue_number",
                    AutoFixStateEntry(self)), t)

PRReviewResultUpdateIndex(fs, self, t) ==
    WriteJson(fs, PrIndexFile,
              PRReviewResultNewIndex(ReadIndex(fs, PrIndexFile, PrIndexSkeleton),
                                     self, t))

AutoFixStateUpdateIndex(fs, self, t) ==
    WriteJson(fs, IssuesIndexFile,
              AutoFixStateNewIndex(
                  ReadIndex(fs, IssuesIndexFile, IssuesIndexSkeleton), self, t))

\* ---------------------------------------------------------------- save and load

PRReviewResultSaveFiles(fs, self, t) ==
    PRReviewResultUpdateIndex(
        WriteJson(fs, ReviewFile(self.pr_number), PRReviewResultToDict(self)),
        self, t)

TriageResultSaveFiles(fs, self) ==
    WriteJson(fs, TriageFile(self.issue_number), TriageResultToDict(self))

AutoFixStateSaveFiles(fs, self, t) ==
    AutoFixStateUpdateIndex(
        WriteJson(fs, AutoFixFile(self.issue_number), AutoFixStateToDict(self)),
        self, t)

\* load(github_dir, n): None when the file does not exist, else from_dict of
\* the document in it (JSONDecodeError when it holds no complete document).
PRReviewResultLoadFrom(fs, pr_number, t) ==
    IF ~Exists(fs, ReviewFile(pr_number)) THEN NoObject
    ELSE IF ~CanLoad(fs, ReviewFile(pr_number)) THEN Raised("JSONDecodeError")
    ELSE PRReviewResultFromDict(JsonLoad(fs, ReviewFile(pr_number)), t)

TriageResultLoadFrom(fs, issue_number, t) ==
    IF ~Exists(fs, TriageFile(issue_number)) THEN NoObject
    ELSE IF ~CanLoad(fs, TriageFile(issue_number)) THEN Raised("JSONDecodeError")
    ELSE TriageResultFromDict(JsonLoad(fs, TriageFile(issue_number)), t)

AutoFixStateLoadFrom(fs, issue_number, t) ==
    IF ~Exists(fs, AutoFixFile(issue_number)) THEN NoObject
    ELSE IF ~CanLoad(fs, AutoFixFile(issue_number)) THEN Raised("JSONDecodeError")
    ELSE AutoFixStateFromDict(JsonLoad(fs, AutoFixFile(issue_number)), t)

\* ---------------------------------------------------------------- inputs

Repo == "o/r"
IssueUrl == "https://x/issue"

Finding1 ==
    [PRReviewFinding("f1", "HIGH", "SECURITY", "title", "description", "a.py", 3)
        EXCEPT !.end_line = Some(4), !.suggested_fix = Some("escape it"),
               !.fixable = TRUE]

\* The keyword arguments the records are constructed with: the defaults of
\* the dataclass, and a set in which every optional field holds a value.
ReviewDefaults ==
    [success |-> TRUE, findings |-> <<>>, summary |-> "",
     overall_status |-> "comment", review_id |-> None, error |-> None]

ReviewInputs ==
    {ReviewDefaults,
     [success |-> FALSE, findings |-> <<Finding1>>, summary |-> "one finding",
      overall_status |-> "request_changes", review_id |-> Some(5),
      error |-> Some("rate limited")]}

TriageInputs ==
    {[category |-> "DUPLICATE", confidence |-> 90,
      labels_to_add |-> <<"duplicate">>, labels_to_remove |-> <<"bug">>,
      is_duplicate |-> TRUE, duplicate_of |-> Some(1), is_spam |-> FALSE,
      is_feature_creep |-> TRUE, suggested_breakdown |-> <<"part one">>,
      priority |-> "high", comment |-> Some("see the other issue")]}

AutoFixDefaults ==
    [status |-> "PENDING", spec_id |-> None, spec_dir |-> None,
     pr_number |-> None, pr_url |-> None, bot_comments |-> <<>>,
     error |-> None]

AutoFixInputs ==
    {AutoFixDefaults,
     [status |-> "QA_REVIEW", spec_id |-> Some("001-fix"),
      spec_dir |-> Some("specs/001-fix"), pr_number |-> Some(7),
      pr_url |-> Some("https://x/pull/7"), bot_comments |-> <<"c1", "c2">>,
      error |-> Some("qa failed")]}

StatusInputs == {"BUILDING", "FAILED"}

DropKeys(d, ks) == [k \in DOMAIN d \ ks |-> d[k]]

\* The mappings from_dict is given: the encoding of a state whose timestamps are
\* in order, with any of the optional keys status, created_at and updated_at
\* left out; one with a status outside the vocabulary; one without repo.
AutoFixMappings ==
    LET base(n, kw, c, u) ==
            AutoFixStateToDict(AutoFixState(n, IssueUrl, Repo, kw, c, u))
        valid == {DropKeys(base(n, kw, tt[1], tt[2]), ks) :
                    n \in Ids, kw \in {[AutoFixDefaults EXCEPT !.status = "ANALYZING"]},
                    tt \in {x \in Times \X Times : x[1] <= x[2]},
                    ks \in {{}, {"created_at"}, {"updated_at"},
                             {"status", "created_at", "updated_at"}}}
    IN valid
         \cup {[base(n, AutoFixDefaults, 0, 0) EXCEPT !.status = "bogus"] :
                  n \in Ids}
         \cup {DropKeys(base(n, AutoFixDefaults, 0, 0), {"repo"}) : n \in Ids}

NoDict == [kind |-> "none"]

Procs == {1, 2}

\* A process's locals inside save(): self, the index it read, whether a part
\* of the document it is writing has reached the file, whether it still runs.
IdleLocals ==
    [self |-> NoObject, index |-> NoDict, flushed |-> FALSE, alive |-> TRUE]

\* ---------------------------------------------------------------- sequential use

EmptyFiles == [p \in Paths |-> Absent]

\* What has been saved is remembered per class and identifier.
Slot(kind, n) == <<kind, n>>
Slots == ({"review", "triage", "autofix"} \X Ids) \cup {Slot("config", 0)}

InitHistory ==
    /\ saved = [sl \in Slots |-> NoObject]
    /\ order = [p \in IndexFiles |-> <<>>]
    /\ nsaves = 0
    /\ lastw = [p \in IndexFiles |-> 0]

Init ==
    /\ now = 0
    /\ dirs = {}
    /\ files = EmptyFiles
    /\ obj = NoObject
    /\ ret = NoDict
    /\ InitHistory
    /\ pc = [p \in Procs |-> "idle"]
    /\ loc = [p \in Procs |-> IdleLocals]

\* The history of a save of self (and, for an index-owning type, of the
\* first save of identifier n under index).
NoteSave(slot, self) ==
    /\ saved' = [saved EXCEPT ![slot] = self]
    /\ nsaves' = nsaves + 1

NoteFirstSave(index, n) ==
    /\ order' = [order EXCEPT ![index] =
                    IF \E i \in DOMAIN @ : @[i] = n THEN @ ELSE Append(@, n)]
    /\ lastw' = [lastw EXCEPT ![index] = n]

Tick ==
    /\ now < MaxTime
    /\ now' = now + 1
    /\ UNCHANGED <<dirs, files, obj, ret, saved, order, nsaves, lastw, pc, loc>>

NewPRReviewResult(n, kw) ==
    /\ obj' = PRReviewResult(n, Repo, kw, now)
    /\ UNCHANGED <<now, dirs, files, ret, saved, order, nsaves, lastw, pc, loc>>

NewTriageResult(n, kw) ==
    /\ obj' = TriageResult(n, Repo, kw, now)
    /\ UNCHANGED <<now, dirs, files, ret, saved, order, nsaves, lastw, pc, loc>>

\* The two default factories read the clock one after the other.
NewAutoFixState(n, kw) ==
    /\ \E tu \in {now, now + 1} \cap Times :
          /\ obj' = AutoFixState(n, IssueUrl, Repo, kw, now, tu)
          /\ now' = tu
    /\ UNCHANGED <<dirs, files, ret, saved, order, nsaves, lastw, pc, loc>>

DecodeAutoFixState(data) ==
    /\ obj' = AutoFixStateFromDict(data, now)
    /\ UNCHANGED <<now, dirs, files, ret, saved, order, nsaves, lastw, pc, loc>>

UpdateStatus(s) ==
    /\ obj.kind = "autofix"
    /\ obj' = AutoFixStateUpdateStatus(obj, s, now)
    /\ UNCHANGED <<now, dirs, files, ret, saved, order, nsaves, lastw, pc, loc>>

SavePRReviewResult ==
    /\ obj.kind = "review"
    /\ nsaves < MaxSaves
    /\ dirs' = Mkdir(dirs, "pr")
    /\ files' = PRReviewResultSaveFiles(files, obj, now)
    /\ NoteSave(Slot("review", obj.pr_number), obj)
    /\ NoteFirstSave(PrIndexFile, obj.pr_number)
    /\ UNCHANGED <<now, obj, ret, pc, loc>>

SaveTriageResult ==
    /\ obj.kind = "triage"
    /\ nsaves < MaxSaves
    /\ dirs' = Mkdir(dirs, "issues")
    /\ files' = TriageResultSaveFiles(files, obj)
    /\ NoteSave(Slot("triage", obj.issue_number), obj)
    /\ UNCHANGED <<now, obj, ret, order, lastw, pc, loc>>

SaveAutoFixState ==
    /\ obj.kind = "autofix"
    /\ nsaves < MaxSaves
    /\ dirs' = Mkdir(dirs, "issues")
    /\ files' = AutoFixStateSaveFiles(files, obj, now)
    /\ NoteSave(Slot("autofix", obj.issue_number), obj)
    /\ NoteFirstSave(IssuesIndexFile, obj.issue_number)
    /\ UNCHANGED <<now, obj, ret, pc, loc>>

LoadPRReviewResult(n) ==
    /\ obj' = PRReviewResultLoadFrom(files, n, now)
    /\ UNCHANGED <<now, dirs, files, ret, saved, order, nsaves, lastw, pc, loc>>

LoadTriageResult(n) ==
    /\ obj' = TriageResultLoadFrom(files, n, now)
    /\ UNCHANGED <<now, dirs, files, ret, saved, order, nsaves, lastw, pc, loc>>

LoadAutoFixState(n) ==
    /\ obj' = AutoFixStateLoadFrom(files, n, now)
    /\ UNCHANGED <<now, dirs, files, ret, saved, order, nsaves, lastw, pc, loc>>

Next ==
    \/ Tick
    \/ \E n \in Ids, kw \in ReviewInputs : NewPRReviewResult(n, kw)
    \/ \E n \in Ids, kw \in TriageInputs : NewTriageResult(n, kw)
    \/ \E n \in Ids, kw \in AutoFixInputs : NewAutoFixState(n, kw)
    \/ \E s \in {"BUILDING"} : UpdateStatus(s)
    \/ SavePRReviewResult
    \/ SaveTriageResult
    \/ SaveAutoFixState
    \/ \E n \in Ids : LoadPRReviewResult(n)
    \/ \E n \in Ids : LoadTriageResult(n)
    \/ \E n \in Ids : LoadAutoFixState(n)

Spec == Init /\ [][Next]_vars

\* The life of an auto-fix state alone: constructed or decoded from a mapping,
\* its status updated, saved and loaded.
NextAutoFix ==
    \/ Tick
    \/ \E n \in Ids : NewAutoFixState(n, AutoFixDefaults)
    \/ \E data \in AutoFixMappings : DecodeAutoFixState(data)
    \/ \E s \in StatusInputs : UpdateStatus(s)
    \/ SaveAutoFixState
    \/ \E n \in Ids : LoadAutoFixState(n)

SpecAutoFix == Init /\ [][NextAutoFix]_vars

\* ---------------------------------------------------------------- concurrent saves
\* save() step by step, run by processes that share github_dir: mkdir, open
\* (which truncates), json.dump and close, and for an index-owning type the
\* read of the index, its open and its dump. A process may be killed (or its
\* I/O may fail) at any step. Nothing synchronizes the processes.

RecordFileOf(self) ==
    CASE self.kind = "review" -> ReviewFile(self.pr_number)
      [] self.kind = "triage" -> TriageFile(self.issue_number)
      [] self.kind = "autofix" -> AutoFixFile(self.issue_number)

ToDictOf(self) ==
    CASE self.kind = "review" -> PRReviewResultToDict(self)
      [] self.kind = "triage" -> TriageResultToDict(self)
      [] self.kind = "autofix" -> AutoFixStateToDict(self)

IdOf(self) == IF self.kind = "review" THEN self.pr_number ELSE self.issue_number

OwnsIndex(self) == self.kind \in {"review", "autofix"}

IndexFileOf(self) == IF self.kind = "review" THEN PrIndexFile ELSE IssuesIndexFile

IndexSkeletonOf(self) ==
    IF self.kind = "review" THEN PrIndexSkeleton ELSE IssuesIndexSkeleton

NewIndexOf(index, self, t) ==
    IF self.kind = "review" THEN PRReviewResultNewIndex(index, self, t)
    ELSE AutoFixStateNewIndex(index, self, t)

\* What two writers leave when their writes to one file overlap: the bytes of
\* both, which is no document of either.
Garbled == [kind |-> "garbled", doc |-> [absent |-> TRUE]]

\* A part of the text of d reaches the file before the rest: on the empty file
\* the open left, it is a prefix of d; on anything another writer has put
\* there since, it overwrites that writer's first bytes.
FlushPart(cur, d) ==
    IF cur.kind = "truncated" \/ cur = Partial(d) \/ cur = Json(d)
    THEN IF cur = Json(d) THEN cur ELSE Partial(d)
    ELSE Garbled

\* The dump returning with a part of d still unwritten.
FinishDumpPartial(cur, d, flushed) == {Partial(d)}

\* The contents json.dump and close can leave, writing d from the offset the
\* writer has reached into a file that holds cur. On the file as this writer
\* left it the result is d. On bytes another writer has written since, it is d
\* when d's text covers them and a mix of the two otherwise; after a
\* truncation by another writer that followed this writer's first part, the
\* rest lands behind a hole.
FinishDump(cur, d, flushed) ==
    IF cur = Json(d) THEN {Json(d)}
    ELSE IF ~flushed
         THEN IF cur.kind = "truncated" THEN {Json(d)} ELSE {Json(d), Garbled}
    ELSE IF cur = Partial(d) THEN {Json(d)}
    ELSE {Garbled}

\* The records the processes save.
SaveInputs ==
    {PRReviewResult(n, Repo, kw, 0) : n \in Ids, kw \in ReviewInputs}
      \cup {TriageResult(n, Repo, kw, 0) : n \in Ids, kw \in TriageInputs}
      \cup {AutoFixState(n, IssueUrl, Repo, AutoFixDefaults, 0, 0) : n \in Ids}

Running(p) == pc[p] # "idle" /\ loc[p].alive

Goto(p, label) == pc' = [pc EXCEPT ![p] = label]

\* save() returns (or raises): the process is back at its caller.
Return(p) ==
    /\ pc' = [pc EXCEPT ![p] = "idle"]
    /\ loc' = [loc EXCEPT ![p] = IdleLocals]

SaveBegin(p, x) ==
    /\ pc[p] = "idle" /\ loc[p].alive
    /\ nsaves < MaxSaves
    /\ nsaves' = nsaves + 1
    /\ loc' = [loc EXCEPT ![p].self = x]
    /\ Goto(p, "mkdir")
    /\ UNCHANGED <<now, dirs, files, obj, ret, saved, order, lastw>>

SaveMkdir(p) ==
    /\ pc[p] = "mkdir" /\ loc[p].alive
    /\ dirs' = Mkdir(dirs, RecordFileOf(loc[p].self).dir)
    /\ Goto(p, "open")
    /\ UNCHANGED <<now, files, obj, ret, saved, order, nsaves, lastw, loc>>

SaveOpen(p) ==
    /\ pc[p] = "open" /\ loc[p].alive
    /\ files' = OpenW(files, RecordFileOf(loc[p].self))
    /\ Goto(p, "dump")
    /\ UNCHANGED <<now, dirs, obj, ret, saved, order, nsaves, lastw, loc>>

SaveFlush(p) ==
    /\ pc[p] = "dump" /\ loc[p].alive /\ ~loc[p].flushed
    /\ LET path == RecordFileOf(loc[p].self)
       IN files' = [files EXCEPT
                       ![path] = FlushPart(@, ToDictOf(loc[p].self))]
    /\ loc' = [loc EXCEPT ![p].flushed = TRUE]
    /\ UNCHANGED <<now, dirs, obj, ret, saved, order, nsaves, lastw, pc>>

SaveDump(p) ==
    /\ pc[p] = "dump" /\ loc[p].alive
    /\ LET self == loc[p].self
           path == RecordFileOf(self)
       IN /\ \E c \in FinishDump(files[path], ToDictOf(self), loc[p].flushed) :
                /\ files' = [files EXCEPT ![path] = c]
                /\ saved' = [saved EXCEPT ![Slot(self.kind, IdOf(self))] =
                                 IF c.kind = "json" THEN self ELSE @]
          /\ IF OwnsIndex(self)
             THEN /\ Goto(p, "index_read")
                  /\ loc' = [loc EXCEPT ![p].flushed = FALSE]
             ELSE Return(p)
    /\ UNCHANGED <<now, dirs, obj, ret, order, nsaves, lastw>>

\* if index_file.exists(): json.load(f), which raises on a file that holds
\* no complete document, and save() raises with it.
SaveIndexRead(p) ==
    /\ pc[p] = "index_read" /\ loc[p].alive
    /\ LET self == loc[p].self
           path == IndexFileOf(self)
       IN IF Exists(files, path) /\ ~CanLoad(files, path)
          THEN Return(p)
          ELSE /\ loc' = [loc EXCEPT
                             ![p].index = ReadIndex(files, path,
                                                    IndexSkeletonOf(self))]
               /\ Goto(p, "index_open")
    /\ UNCHANGED <<now, dirs, files, obj, ret, saved, order, nsaves, lastw>>

SaveIndexOpen(p) ==
    /\ pc[p] = "index_open" /\ loc[p].alive
    /\ files' = OpenW(files, IndexFileOf(loc[p].self))
    /\ Goto(p, "index_dump")
    /\ UNCHANGED <<now, dirs, obj, ret, saved, order, nsaves, lastw, loc>>

SaveIndexFlush(p) ==
    /\ pc[p] = "index_dump" /\ loc[p].alive /\ ~loc[p].flushed
    /\ LET self == loc[p].self
       IN files' = [files EXCEPT
                       ![IndexFileOf(self)] =
                           FlushPart(@, NewIndexOf(loc[p].index, self, now))]
    /\ loc' = [loc EXCEPT ![p].flushed = TRUE]
    /\ UNCHANGED <<now, dirs, obj, ret, saved, order, nsaves, lastw, pc>>

SaveIndexDump(p) ==
    /\ pc[p] = "index_dump" /\ loc[p].alive
    /\ LET self == loc[p].self
           path == IndexFileOf(self)
       IN /\ \E c \in FinishDump(files[path],
                                 NewIndexOf(loc[p].index, self, now),
                                 loc[p].flushed) :
                files' = [files EXCEPT ![path] = c]
          /\ NoteFirstSave(path, IdOf(self))
    /\ Return(p)
    /\ UNCHANGED <<now, dirs, obj, ret, saved, nsaves>>

\* The process is killed, or one of its I/O calls fails, inside save().
Kill(p) ==
    /\ Running(p)
    /\ loc' = [loc EXCEPT ![p].alive = FALSE]
    /\ UNCHANGED <<now, dirs, files, obj, ret, saved, order, nsaves, lastw, pc>>

NextConc ==
    \/ \E p \in Procs, x \in SaveInputs : SaveBegin(p, x)
    \/ \E p \in Procs : SaveMkdir(p)
    \/ \E p \in Procs : SaveOpen(p)
    \/ \E p \in Procs : SaveFlush(p)
    \/ \E p \in Procs : SaveDump(p)
    \/ \E p \in Procs : SaveIndexRead(p)
    \/ \E p \in Procs : SaveIndexOpen(p)
    \/ \E p \in Procs : SaveIndexFlush(p)
    \/ \E p \in Procs : SaveIndexDump(p)
    \/ \E p \in Procs : Kill(p)

SpecConc == Init /\ [][NextConc]_vars

\* ---------------------------------------------------------------- GitHubRunnerConfig

\* GitHubRunnerConfig(token, repo, bot_token): the other fields take their
\* defaults (the thresholds 0.80, 0.75 and 0.70 in hundredths).
GitHubRunnerConfig(token, repo, bot_token) ==
    [kind |-> "config", token |-> token, repo |-> repo, bot_token |-> bot_token,
     auto_fix_enabled |-> FALSE, auto_fix_labels |-> <<"auto-fix">>,
     require_human_approval |-> TRUE, triage_enabled |-> FALSE,
     duplicate_threshold |-> 80, spam_threshold |-> 75,
     feature_creep_threshold |-> 70, enable_triage_comments |-> FALSE,
     pr_review_enabled |-> FALSE, auto_post_reviews |-> FALSE,
     allow_fix_commits |-> TRUE, model |-> "claude-sonnet-4-20250514",
     thinking_level |-> "medium"]

\* bool(x) of an Optional[str]: None and "" are false.
Truthy(opt) == opt # None /\ opt[1] # ""

\* to_dict with the two secrets copied like every other field.
GitHubRunnerConfigToDictUnredacted(self) ==
    [token |-> self.token,
     repo |-> self.repo,
     bot_token |-> self.bot_token,
     auto_fix_enabled |-> self.auto_fix_enabled,
     auto_fix_labels |-> self.auto_fix_labels,
     require_human_approval |-> self.require_human_approval,
     triage_enabled |-> self.triage_enabled,
     duplicate_threshold |-> self.duplicate_threshold,
     spam_threshold |-> self.spam_threshold,
     feature_creep_threshold |-> self.feature_creep_threshold,
     enable_triage_comments |-> self.enable_triage_comments,
     pr_review_enabled |-> self.pr_review_enabled,
     auto_post_reviews |-> self.auto_post_reviews,
     allow_fix_commits |-> self.allow_fix_commits,
     model |-> self.model,
     thinking_level |-> self.thinking_level]

GitHubRunnerConfigToDict(self) ==
    [token |-> "***",
     repo |-> self.repo,
     bot_token |-> IF Truthy(self.bot_token) THEN Some("***") ELSE None,
     auto_fix_enabled |-> self.auto_fix_enabled,
     auto_fix_labels |-> self.auto_fix_labels,
     require_human_approval |-> self.require_human_approval,
     triage_enabled |-> self.triage_enabled,
     duplicate_threshold |-> self.duplicate_threshold,
     spam_threshold |-> self.spam_threshold,
     feature_creep_threshold |-> self.feature_creep_threshold,
     enable_triage_comments |-> self.enable_triage_comments,
     pr_review_enabled |-> self.pr_review_enabled,
     auto_post_reviews |-> self.auto_post_reviews,
     allow_fix_commits |-> self.allow_fix_commits,
     model |-> self.model,
     thinking_level |-> self.thinking_level]

\* save_settings: settings = self.to_dict(); settings.pop("token");
\* settings.pop("bot_token")
GitHubRunnerConfigSettings(self) ==
    DropKeys(GitHubRunnerConfigToDict(self), {"token", "bot_token"})

GitHubRunnerConfigSaveFiles(fs, self) ==
    WriteJson(fs, ConfigFile, GitHubRunnerConfigSettings(self))

GitHubRunnerConfigLoadSettings(fs, token, repo, bot_token) ==
    IF Exists(fs, ConfigFile) /\ ~CanLoad(fs, ConfigFile)
    THEN Raised("JSONDecodeError")
    ELSE LET settings == IF Exists(fs, ConfigFile)
                         THEN JsonLoad(fs, ConfigFile)
                         ELSE [k \in {} |-> None]
         IN [kind |-> "config", token |-> token, repo |-> repo,
             bot_token |-> bot_token,
             auto_fix_enabled |-> Get(settings, "auto_fix_enabled", FALSE),
             auto_fix_labels |-> Get(settings, "auto_fix_labels", <<"auto-fix">>),
             require_human_approval |->
                 Get(settings, "require_human_approval", TRUE),
             triage_enabled |-> Get(settings, "triage_enabled", FALSE),
             duplicate_threshold |-> Get(settings, "duplicate_threshold", 80),
             spam_threshold |-> Get(settings, "spam_threshold", 75),
             feature_creep_threshold |->
                 Get(settings, "feature_creep_threshold", 70),
             enable_triage_comments |->
                 Get(settings, "enable_triage_comments", FALSE),
             pr_review_enabled |-> Get(settings, "pr_review_enabled", FALSE),
             auto_post_reviews |-> Get(settings, "auto_post_reviews", FALSE),
             allow_fix_commits |-> Get(settings, "allow_fix_commits", TRUE),
             model |-> Get(settings, "model", "claude-sonnet-4-20250514"),
             thinking_level |-> Get(settings, "thinking_level", "medium")]

\* The values the caller supplies: a token may be any string, the placeholder
\* included, and a label may be any string, the token included.
TokenInputs == {"ghp_secret", "***"}
BotTokenInputs == {None, Some(""), Some("bot_secret")}
RepoInputs == {Repo}
LabelInputs == {<<"auto-fix">>, <<"bug", "ghp_secret">>}

NewGitHubRunnerConfig(token, repo, bot_token) ==
    /\ obj' = GitHubRunnerConfig(token, repo, bot_token)
    /\ UNCHANGED <<now, dirs, files, ret, saved, order, nsaves, lastw, pc, loc>>

\* The caller sets fields of the config it holds.
SetSettings(labels) ==
    /\ obj.kind = "config"
    /\ obj' = [obj EXCEPT !.auto_fix_enabled = TRUE, !.auto_fix_labels = labels]
    /\ UNCHANGED <<now, dirs, files, ret, saved, order, nsaves, lastw, pc, loc>>

CallToDict ==
    /\ obj.kind = "config"
    /\ ret' = [kind |-> "dict", self |-> obj, doc |-> GitHubRunnerConfigToDict(obj)]
    /\ UNCHANGED <<now, dirs, files, obj, saved, order, nsaves, lastw, pc, loc>>

SaveSettings ==
    /\ obj.kind = "config"
    /\ dirs' = dirs \cup {"."}
    /\ files' = GitHubRunnerConfigSaveFiles(files, obj)
    /\ saved' = [saved EXCEPT ![Slot("config", 0)] = obj]
    /\ UNCHANGED <<now, obj, ret, order, nsaves, lastw, pc, loc>>

LoadSettings(token, repo, bot_token) ==
    /\ obj' = GitHubRunnerConfigLoadSettings(files, token, repo, bot_token)
    /\ UNCHANGED <<now, dirs, files, ret, saved, order, nsaves, lastw, pc, loc>>

NextConfig ==
    \/ \E t \in TokenInputs, r \in RepoInputs, b \in BotTokenInputs :
          NewGitHubRunnerConfig(t, r, b)
    \/ \E l \in LabelInputs : SetSettings(l)
    \/ CallToDict
    \/ SaveSettings
    \/ \E t \in TokenInputs, r \in RepoInputs, b \in BotTokenInputs :
          LoadSettings(t, r, b)

SpecConfig == Init /\ [][NextConfig]_vars

\* ================================================================ claims

\* The entry list an index file holds under key (empty when there is no index).
IndexList(fs, path, key) ==
    IF CanLoad(fs, path) THEN Get(JsonLoad(fs, path), key, <<>>) ELSE <<>>

IdsOf(list, idkey) == [i \in DOMAIN list |-> list[i][idkey]]

Reviews == IndexList(files, PrIndexFile, "reviews")
Queue == IndexList(files, IssuesIndexFile, "auto_fix_queue")

\* C1. Index upsert, sequential saves from an empty directory: each index
\* holds exactly one entry per identifier saved so far, in the order of the
\* identifiers' first saves, and each entry is the projection of the record
\* most recently saved under its identifier.
C1_IndexUpsert ==
    /\ IdsOf(Reviews, "pr_number") = order[PrIndexFile]
    /\ \A i \in DOMAIN Reviews :
          LET e == Reviews[i]
              x == saved[Slot("review", e.pr_number)]
          IN /\ DOMAIN e = {"pr_number", "repo", "overall_status",
                            "findings_count", "reviewed_at"}
             /\ x.kind = "review"
             /\ e.repo = x.repo
             /\ e.overall_status = x.overall_status
             /\ e.findings_count = Len(x.findings)
             /\ e.reviewed_at = x.reviewed_at
    /\ IdsOf(Queue, "issue_number") = order[IssuesIndexFile]
    /\ \A i \in DOMAIN Queue :
          LET e == Queue[i]
              x == saved[Slot("autofix", e.issue_number)]
          IN /\ DOMAIN e = {"issue_number", "repo", "status", "spec_id",
                            "pr_number", "updated_at"}
             /\ x.kind = "autofix"
             /\ e.repo = x.repo
             /\ e.status = AutoFixStatus[x.status]
             /\ e.spec_id = x.spec_id
             /\ e.pr_number = x.pr_number
             /\ e.updated_at = x.updated_at

\* C1's case: reviews 1 and 2 were saved, then review 1 again with another
\* status; the index lists 1 before 2 and shows 1's latest status.
C1_Witness ==
    /\ nsaves = 3
    /\ order[PrIndexFile] = <<1, 2>>
    /\ lastw[PrIndexFile] = 1
    /\ \A n \in Ids : ~Exists(files, TriageFile(n)) /\ ~Exists(files, AutoFixFile(n))
    /\ Len(Reviews) = 2
    /\ Reviews[1].overall_status = "request_changes"
    /\ Reviews[2].overall_status = "comment"
    /\ Reviews[1].reviewed_at > Reviews[2].reviewed_at

\* C3. Round trip through the filesystem: for each record type, load of an
\* identifier returns a record equal, field for field and timestamps included,
\* to the one last saved under it, whatever was saved under other identifiers
\* or for other types since and however much later the load happens.
C3_SaveLoadRoundTrip ==
    \A n \in Ids :
        /\ saved[Slot("review", n)].kind = "review"
              => PRReviewResultLoadFrom(files, n, now) = saved[Slot("review", n)]
        /\ saved[Slot("triage", n)].kind = "triage"
              => TriageResultLoadFrom(files, n, now) = saved[Slot("triage", n)]
        /\ saved[Slot("autofix", n)].kind = "autofix"
              => AutoFixStateLoadFrom(files, n, now) = saved[Slot("autofix", n)]

\* C3's case: a review with a finding was saved, the clock moved on, records of
\* the two other types were constructed and saved after that, and the caller
\* now holds the review again: it can only have come from load.
C3_Witness ==
    /\ obj.kind = "review"
    /\ Len(obj.findings) = 1
    /\ obj = saved[Slot("review", obj.pr_number)]
    /\ obj.reviewed_at < now
    /\ \E n \in Ids :
          /\ saved[Slot("triage", n)].kind = "triage"
          /\ saved[Slot("triage", n)].triaged_at = now
          /\ saved[Slot("autofix", n)].kind = "autofix"
          /\ saved[Slot("autofix", n)].created_at = now

\* C4 (state part). For each record type, load of an identifier never saved
\* for that type returns None, whatever was saved under other identifiers and
\* for the other types.
NeverSavedLoadsNone ==
    \A n \in Ids :
        /\ saved[Slot("review", n)].kind = "none"
              => PRReviewResultLoadFrom(files, n, now) = NoObject
        /\ saved[Slot("triage", n)].kind = "none"
              => TriageResultLoadFrom(files, n, now) = NoObject
        /\ saved[Slot("autofix", n)].kind = "none"
              => AutoFixStateLoadFrom(files, n, now) = NoObject

\* C4 (effect part). A step that is a load leaves the filesystem as it was.
LoadStep ==
    \E n \in Ids :
        \/ LoadPRReviewResult(n)
        \/ LoadTriageResult(n)
        \/ LoadAutoFixState(n)

\* C4. Load of a never-saved identifier returns None and raises nothing, after
\* any saves of other identifiers and other record types, and load writes
\* nothing to the filesystem.
C4_LoadAbsent ==
    /\ []NeverSavedLoadsNone
    /\ [][LoadStep => files' = files /\ dirs' = dirs]_vars

\* C4's case: a triage result is on disk for an issue whose auto-fix state
\* was never saved, and the caller's load came back with None.
C4_Witness ==
    /\ obj = NoObject
    /\ \E n \in Ids :
          /\ saved[Slot("triage", n)].kind = "triage"
          /\ saved[Slot("autofix", n)].kind = "none"
          /\ Exists(files, TriageFile(n))
          /\ \E m \in Ids : saved[Slot("autofix", m)].kind = "autofix"

\* What a path holds, read as an index: the document, or the skeleton the
\* save starts from when there is no index file.
IndexDoc(fs, path, skeleton) ==
    IF CanLoad(fs, path) THEN JsonLoad(fs, path) ELSE skeleton

\* list without the entries of identifier n
Without(list, idkey, n) == SelectSeq(list, LAMBDA e : e[idkey] # n)

\* The index at path is as it was, but for the entry of identifier n under
\* key and for last_updated.
OthersKept(path, skeleton, key, idkey, n) ==
    LET old == IndexDoc(files, path, skeleton)
        new == IndexDoc(files', path, skeleton)
    IN /\ CanLoad(files', path)
       /\ DOMAIN new = DOMAIN old
       /\ \A k \in DOMAIN old \ {key, "last_updated"} : new[k] = old[k]
       /\ Without(new[key], idkey, n) = Without(old[key], idkey, n)
       /\ Len(new[key]) = Len(Without(old[key], idkey, n)) + 1

\* A step that is a save of the record of class kind the caller holds.
SaveStep(kind) == nsaves' = nsaves + 1 /\ obj.kind = kind

\* C8. Frame of a sequential save: it changes the record file of its own
\* identifier and, for an index-owning type, its own entry and last_updated
\* in that type's index; every other file, every other identifier's entry
\* and every other key of the index stay as they were, and a triage save
\* neither creates nor modifies issues/index.json.
C8_SaveFrame ==
    [][/\ SaveStep("review") =>
            /\ \A path \in Paths \ {ReviewFile(obj.pr_number), PrIndexFile} :
                  files'[path] = files[path]
            /\ OthersKept(PrIndexFile, PrIndexSkeleton, "reviews",
                          "pr_number", obj.pr_number)
       /\ SaveStep("triage") =>
            \A path \in Paths \ {TriageFile(obj.issue_number)} :
                files'[path] = files[path]
       /\ SaveStep("autofix") =>
            /\ \A path \in Paths \ {AutoFixFile(obj.issue_number),
                                    IssuesIndexFile} :
                  files'[path] = files[path]
            /\ OthersKept(IssuesIndexFile, IssuesIndexSkeleton,
                          "auto_fix_queue", "issue_number", obj.issue_number)
      ]_vars

\* C8's case: auto-fix states of two issues are in the index, a triage result
\* of the issue saved first went to disk after them, and the index still
\* holds its triaged key and both entries.
C8_Witness ==
    /\ nsaves = 3
    /\ order[IssuesIndexFile] = <<1, 2>>
    /\ saved[Slot("triage", 1)].kind = "triage"
    /\ saved[Slot("triage", 1)].triaged_at > saved[Slot("autofix", 2)].updated_at
    /\ obj.kind = "triage"
    /\ Len(Queue) = 2
    /\ "triaged" \in DOMAIN JsonLoad(files, IssuesIndexFile)

\* C10. Index/record consistency under sequential execution: every index
\* entry has a record file of its identifier and equals the projection of the
\* document in that file, also while the caller holds a status that
\* update_status changed and save has not yet written.
C10_IndexMatchesFiles ==
    /\ \A i \in DOMAIN Reviews :
          LET e == Reviews[i]
              path == ReviewFile(e.pr_number)
          IN /\ CanLoad(files, path)
             /\ LET d == JsonLoad(files, path)
                IN e = [pr_number |-> d.pr_number,
                        repo |-> d.repo,
                        overall_status |-> d.overall_status,
                        findings_count |-> Len(d.findings),
                        reviewed_at |-> d.reviewed_at]
    /\ \A i \in DOMAIN Queue :
          LET e == Queue[i]
              path == AutoFixFile(e.issue_number)
          IN /\ CanLoad(files, path)
             /\ LET d == JsonLoad(files, path)
                IN e = [issue_number |-> d.issue_number,
                        repo |-> d.repo,
                        status |-> d.status,
                        spec_id |-> d.spec_id,
                        pr_number |-> d.pr_number,
                        updated_at |-> d.updated_at]

\* C10's case: the state of an issue was saved as pending, then update_status
\* made it building at a later time and nothing was saved since: file and
\* index both still say pending.
C10_Witness ==
    /\ obj.kind = "autofix"
    /\ obj.status = "BUILDING"
    /\ obj.updated_at > obj.created_at
    /\ saved[Slot("autofix", obj.issue_number)] =
          [obj EXCEPT !.status = "PENDING", !.updated_at = obj.created_at]
    /\ Len(Queue) = 1
    /\ Queue[1].status = "pending"
    /\ JsonLoad(files, AutoFixFile(obj.issue_number)).status = "pending"

\* C5. update_status(s), from any state and for any status s, sets status to
\* s, sets updated_at to a value not before the previous updated_at, and
\* leaves every other field and the filesystem unchanged.
C5_UpdateStatusAdvances ==
    [][\A s \in DOMAIN AutoFixStatus :
          UpdateStatus(s) =>
             /\ obj'.status = s
             /\ obj'.updated_at >= obj.updated_at
             /\ \A f \in DOMAIN obj \ {"status", "updated_at"} : obj'[f] = obj[f]
             /\ files' = files
             /\ dirs' = dirs
      ]_vars

\* C6. Every auto-fix state the caller can hold (constructed with defaults,
\* decoded from a mapping, loaded, its status updated any number of times)
\* has updated_at not before created_at.
C6_UpdatedNotBeforeCreated ==
    obj.kind = "autofix" => obj.updated_at >= obj.created_at

\* ---------------------------------------------------------------- claims: interleaved saves

SlotOf(path) == Slot(path.name, path.n)

\* What load(id) returns to a caller that reads the record file now.
LoadOf(path) ==
    CASE path.name = "review" -> PRReviewResultLoadFrom(files, path.n, now)
      [] path.name = "triage" -> TriageResultLoadFrom(files, path.n, now)
      [] path.name = "autofix" -> AutoFixStateLoadFrom(files, path.n, now)

\* C7 as stated. At every point of a save, an interrupted one included, the
\* record file holds the complete previously saved content or the complete
\* new content, never an empty or partial document, and a load observes
\* nothing else.
C7_AtomicOverwrite ==
    \A path \in RecordFiles :
        /\ \/ files[path] = Absent /\ saved[SlotOf(path)] = NoObject
           \/ /\ files[path].kind = "json"
              /\ \/ files[path].doc = ToDictOf(saved[SlotOf(path)])
                 \/ \E p \in Procs :
                       /\ pc[p] # "idle"
                       /\ RecordFileOf(loc[p].self) = path
                       /\ files[path].doc = ToDictOf(loc[p].self)
        /\ LoadOf(path).kind # "raised"

\* C7 amended. save overwrites the record file in place: a record file that
\* holds a complete document holds the encoding of the record of the last
\* save whose dump completed, and a load returns that record; a record file
\* that is empty or holds a prefix of a document belongs to a save, running
\* or killed, that stands between its open and the end of its dump, and a
\* load of it raises.
C7_OverwriteInPlace ==
    \A path \in RecordFiles :
        /\ files[path].kind = "json" =>
              /\ saved[SlotOf(path)] # NoObject
              /\ files[path].doc = ToDictOf(saved[SlotOf(path)])
              /\ LoadOf(path) = saved[SlotOf(path)]
        /\ files[path].kind \in {"truncated", "partial"} =>
              /\ \E p \in Procs :
                    pc[p] = "dump" /\ RecordFileOf(loc[p].self) = path
              /\ LoadOf(path).kind = "raised"
        /\ files[path] = Absent => LoadOf(path) = NoObject

\* A save of an identifier saved before is killed between open and the end
\* of the dump: the earlier content is gone and the file holds no document.
C7_Witness ==
    \E p \in Procs :
        /\ ~loc[p].alive
        /\ pc[p] = "dump"
        /\ loc[p].self.kind = "autofix"
        /\ files[RecordFileOf(loc[p].self)].kind \in {"truncated", "partial"}
        /\ saved[Slot("autofix", loc[p].self.issue_number)] # NoObject
        /\ LoadOf(RecordFileOf(loc[p].self)).kind = "raised"

\* C9. The index is rewritten whole from the copy each save read: an index
\* file that holds a document lists the identifier of the save that wrote it
\* last, lists only identifiers that were saved, and lists none twice; so of
\* two saves that read the same index, the later write wins and the entry of
\* the earlier one is lost.
C9_LastIndexWriteWins ==
    /\ lastw[PrIndexFile] # 0 /\ CanLoad(files, PrIndexFile) =>
          /\ \E i \in DOMAIN Reviews : Reviews[i].pr_number = lastw[PrIndexFile]
          /\ \A i \in DOMAIN Reviews :
                /\ \E j \in DOMAIN order[PrIndexFile] :
                      order[PrIndexFile][j] = Reviews[i].pr_number
                /\ \A j \in DOMAIN Reviews :
                      Reviews[j].pr_number = Reviews[i].pr_number => j = i
    /\ lastw[IssuesIndexFile] # 0 /\ CanLoad(files, IssuesIndexFile) =>
          /\ \E i \in DOMAIN Queue : Queue[i].issue_number = lastw[IssuesIndexFile]
          /\ \A i \in DOMAIN Queue :
                /\ \E j \in DOMAIN order[IssuesIndexFile] :
                      order[IssuesIndexFile][j] = Queue[i].issue_number
                /\ \A j \in DOMAIN Queue :
                      Queue[j].issue_number = Queue[i].issue_number => j = i

\* Two saves of auto-fix states 1 and 2 have both returned, both record files
\* hold their documents, both wrote the index, and the index lists one of the
\* two only.
C9_Witness ==
    /\ \A p \in Procs : pc[p] = "idle" /\ loc[p].alive
    /\ nsaves = 2
    /\ \A n \in {1, 2} :
          /\ files[AutoFixFile(n)].kind = "json"
          /\ saved[Slot("autofix", n)] # NoObject
    /\ Len(order[IssuesIndexFile]) = 2
    /\ CanLoad(files, IssuesIndexFile)
    /\ Len(Queue) = 1

\* ---------------------------------------------------------------- claims: configuration

\* The strings a configuration mapping holds, at any key.
StringsIn(doc) ==
    {doc[k] : k \in {"token", "repo", "model", "thinking_level"} \cap DOMAIN doc}
      \cup UNION {Range(doc[k]) :
                    k \in {"bot_token", "auto_fix_labels"} \cap DOMAIN doc}

Secrets(self) == {self.token} \cup Range(self.bot_token)

NonSecretStrings(self) ==
    {self.repo, self.model, self.thinking_level} \cup Range(self.auto_fix_labels)

SavedConfig == saved[Slot("config", 0)]

\* C2 as stated. Whatever the values of token, bot_token and the other
\* fields, neither the mapping to_dict returns nor config.json after a
\* save_settings contains the token value or the bot_token value.
C2_NoSecretValue ==
    /\ ret.kind = "dict" => StringsIn(ret.doc) \cap Secrets(ret.self) = {}
    /\ files[ConfigFile].kind = "json" =>
          StringsIn(files[ConfigFile].doc) \cap Secrets(SavedConfig) = {}

\* C2 amended. to_dict puts the placeholder "***" where the token is, and
\* where a non-empty bot_token is (None otherwise); config.json has neither
\* key; both outputs are the same whatever the token is and whatever the
\* bot_token is (to_dict: among bot_tokens alike in being empty or not); so a
\* secret's value is in an output only where it is equal to the placeholder
\* or to the value of another field.
C2_SecretsRedacted ==
    /\ ret.kind = "dict" =>
          /\ ret.doc.token = "***"
          /\ ret.doc.bot_token =
                IF Truthy(ret.self.bot_token) THEN Some("***") ELSE None
          /\ \A t \in TokenInputs, b \in BotTokenInputs :
                Truthy(b) = Truthy(ret.self.bot_token) =>
                   GitHubRunnerConfigToDict(
                       [ret.self EXCEPT !.token = t, !.bot_token = b]) = ret.doc
          /\ \A s \in StringsIn(ret.doc) \cap Secrets(ret.self) :
                s = "***" \/ s \in NonSecretStrings(ret.self)
    /\ files[ConfigFile].kind = "json" =>
          /\ DOMAIN files[ConfigFile].doc \cap {"token", "bot_token"} = {}
          /\ \A t \in TokenInputs, b \in BotTokenInputs :
                GitHubRunnerConfigSettings(
                    [SavedConfig EXCEPT !.token = t, !.bot_token = b])
                  = files[ConfigFile].doc
          /\ \A s \in StringsIn(files[ConfigFile].doc) \cap Secrets(SavedConfig) :
                s \in NonSecretStrings(SavedConfig)

\* A configuration with a token and a bot token has been encoded and saved.
C2_Witness ==
    /\ ret.kind = "dict"
    /\ ret.self.token = "ghp_secret"
    /\ ret.self.bot_token = Some("bot_secret")
    /\ ret.doc.token = "***"
    /\ ret.doc.bot_token = Some("***")
    /\ files[ConfigFile].kind = "json"
    /\ SavedConfig = ret.self

====
